---- MODULE Spec2Model ----
(***************************************************************************)
(* Model of agent/main.py: the FastAPI application `app` with its four     *)
(* routes (root, health_check, heal_pipeline, get_metrics), the request    *)
(* model PipelineFailure, the response model HealingResult and the module  *)
(* logger.                                                                 *)
(*                                                                         *)
(* A request is received, then dispatched: routed, its body parsed and     *)
(* validated, the route handler run and the response produced.  The        *)
(* handlers contain no await, so a handler body runs without interleaving; *)
(* requests interleave between reception and dispatch.                     *)
(*                                                                         *)
(* Text is a TLA+ string.  confidence is counted in hundredths (0.95 is    *)
(* 95, the closed interval [0.0, 1.0] is 0..100).  Requests carry a JSON   *)
(* content type and text that can be encoded as UTF-8.                     *)
(***************************************************************************)
EXTENDS Integers, Sequences, FiniteSets, TLC

VARIABLES
    reqs,   \* request id -> the request and, once dispatched, its response
    log     \* the records the logging module has emitted, oldest first

vars == <<reqs, log>>

\* Number of requests a behaviour holds.
MaxRequests == 2

ReqIds == 1..MaxRequests

(***************************************************************************)
(* JSON values, as far as validation tells them apart.                     *)
(***************************************************************************)
Missing == [t |-> "missing", v |-> ""]
Null    == [t |-> "null", v |-> "null"]
Str(s)  == [t |-> "str", v |-> s]
Num(s)  == [t |-> "num", v |-> s]
Obj(s)  == [t |-> "obj", v |-> s]

\* The example payload of PipelineFailure.Config.json_schema_extra.
Example ==
    [ stage         |-> Str("test"),
      error_message |-> Str("AssertionError: test_login failed"),
      logs          |-> Str("Traceback...\nAssertionError: expected True, got False"),
      timestamp     |-> Str("2024-01-27T12:00:00Z"),
      metadata      |-> Obj("{\"branch\": \"main\", \"commit\": \"abc123\"}"),
      extra         |-> Missing ]

\* The values each key of a submitted object is drawn from.
StageValues     == {Missing, Num("123"), Str(""), Str("   "), Str("test"), Str("build")}
ErrorValues     == {Missing, Num("500"), Example.error_message}
LogsValues      == {Missing, Num("0"), Example.logs}
TimestampValues == {Missing, Num("1706356800"), Str(""), Str("not a date"),
                    Example.timestamp}
MetadataValues  == {Missing, Null, Obj("{}"), Str("main"),
                    Obj("{\"attempt\": 3, \"env\": {\"os\": \"linux\"}}"),
                    Example.metadata}
ExtraValues     == {Missing, Str("unexpected")}

Keys == {"stage", "error_message", "logs", "timestamp", "metadata", "extra"}

AllObjects ==
    [ stage : StageValues, error_message : ErrorValues, logs : LogsValues,
      timestamp : TimestampValues, metadata : MetadataValues, extra : ExtraValues ]

\* The payloads of test_heal_pipeline_empty_string and test_all_whitespace_input.
EmptyStrings ==
    [Example EXCEPT !.stage = Str(""), !.error_message = Str(""), !.logs = Str(""),
                    !.metadata = Missing]
AllWhitespace ==
    [Example EXCEPT !.stage = Str("   "), !.error_message = Str("\n\n\n"),
                    !.logs = Str("\t\t\t"), !.metadata = Missing]

\* The submitted objects: the example payload, every object that differs from
\* it in one key, and the two payloads above.
Objects ==
    { o \in AllObjects : Cardinality({k \in Keys : o[k] # Example[k]}) <= 1 }
    \cup {EmptyStrings, AllWhitespace}

(***************************************************************************)
(* Request bodies.  kind: "none" (no body), "undecodable" (bytes the JSON  *)
(* parser cannot decode), "malformed" (text that is not JSON), "array" (a  *)
(* JSON document that is not an object), "object".                         *)
(***************************************************************************)
Body(kind, o) == [kind |-> kind, obj |-> o]
NoBody  == Body("none", Example)
Bodies  ==
    {NoBody, Body("undecodable", Example), Body("malformed", Example),
     Body("array", Example)}
    \cup {Body("object", o) : o \in Objects}

Methods == {"GET", "POST", "DELETE"}

\* Paths requests are made to: the four declared routes, a declared path with
\* a slash appended, and an undeclared path.
Paths == {"/", "/health", "/heal", "/metrics", "/health/", "/nonexistent"}

(***************************************************************************)
(* logging.basicConfig(level=logging.INFO) and the module logger: a record *)
(* is emitted when its level is at least the configured one.               *)
(***************************************************************************)
LevelNo(level) ==
    CASE level = "DEBUG" -> 10
      [] level = "INFO"  -> 20
      [] level = "ERROR" -> 40

\* ConfiguredLevel with logging configured at DEBUG.
ConfiguredLevel_debug == "DEBUG"

ConfiguredLevel == "INFO"

Record(level, msg) == [level |-> level, msg |-> msg]

IsEnabled(rec) == LevelNo(rec.level) >= LevelNo(ConfiguredLevel)

\* The records of a sequence of logger calls that reach the output.
Emitted(calls) == SelectSeq(calls, IsEnabled)

(***************************************************************************)
(* PipelineFailure: every required key must be present and be a string (a  *)
(* number is not converted to text); metadata may be absent, null or a     *)
(* mapping; unknown keys are ignored.                                      *)
(***************************************************************************)
\* FieldError with numbers converted to text instead of rejected.
FieldError_coercing(o, k) ==
    IF o[k].t = "missing" THEN <<[loc |-> <<"body", k>>, type |-> "missing"]>>
    ELSE IF o[k].t \notin {"str", "num"}
        THEN <<[loc |-> <<"body", k>>, type |-> "string_type"]>>
    ELSE <<>>

\* FieldError with a minimum length of one on every required key.
FieldError_nonempty(o, k) ==
    IF o[k].t = "missing" THEN <<[loc |-> <<"body", k>>, type |-> "missing"]>>
    ELSE IF o[k].t # "str" THEN <<[loc |-> <<"body", k>>, type |-> "string_type"]>>
    ELSE IF o[k].v = "" THEN <<[loc |-> <<"body", k>>, type |-> "string_too_short"]>>
    ELSE <<>>

FieldError(o, k) ==
    IF o[k].t = "missing" THEN <<[loc |-> <<"body", k>>, type |-> "missing"]>>
    ELSE IF o[k].t # "str" THEN <<[loc |-> <<"body", k>>, type |-> "string_type"]>>
    ELSE <<>>

\* MetadataError with metadata declared Dict[str, Any]: required, not nullable.
MetadataError_required(o) ==
    IF o.metadata.t = "obj" THEN <<>>
    ELSE <<[loc |-> <<"body", "metadata">>, type |-> "dict_type"]>>

MetadataError(o) ==
    IF o.metadata.t \in {"missing", "null", "obj"} THEN <<>>
    ELSE <<[loc |-> <<"body", "metadata">>, type |-> "dict_type"]>>

\* PipelineFailureErrors with undeclared keys forbidden.
PipelineFailureErrors_forbidExtra(o) ==
    FieldError(o, "stage") \o FieldError(o, "error_message") \o FieldError(o, "logs")
        \o FieldError(o, "timestamp") \o MetadataError(o)
        \o (IF o.extra.t = "missing" THEN <<>>
            ELSE <<[loc |-> <<"body", "extra">>, type |-> "extra_forbidden"]>>)

PipelineFailureErrors(o) ==
    FieldError(o, "stage") \o FieldError(o, "error_message") \o FieldError(o, "logs")
        \o FieldError(o, "timestamp") \o MetadataError(o)

\* The validated model instance; metadata defaults to None.
PipelineFailure(o) ==
    [ stage         |-> o.stage.v,
      error_message |-> o.error_message.v,
      logs          |-> o.logs.v,
      timestamp     |-> o.timestamp.v,
      metadata      |-> IF o.metadata.t = "missing" THEN Null ELSE o.metadata ]

\* failure.model_dump(), as text.
ModelDump(failure) ==
    "{'stage': '" \o failure.stage \o "', 'error_message': '" \o failure.error_message
        \o "', 'logs': '" \o failure.logs \o "', 'timestamp': '" \o failure.timestamp
        \o "', 'metadata': "
        \o (IF failure.metadata.t = "null" THEN "None" ELSE failure.metadata.v) \o "}"

(***************************************************************************)
(* HealingResult: confidence within [0.0, 1.0] (hundredths), iterations    *)
(* not negative; construction fails otherwise.                             *)
(***************************************************************************)
ConfidenceGe == 0
ConfidenceLe == 100
IterationsGe == 0

\* HealingResultErrors of a model whose fields carry no bounds.
HealingResultErrors_unbounded(confidence, iterations) == <<>>

HealingResultErrors(confidence, iterations) ==
    (IF confidence < ConfidenceGe THEN <<"confidence: greater_than_equal">> ELSE <<>>)
    \o (IF confidence > ConfidenceLe THEN <<"confidence: less_than_equal">> ELSE <<>>)
    \o (IF iterations < IterationsGe THEN <<"iterations: greater_than_equal">> ELSE <<>>)

HealingResult(success, fix_applied, confidence, iterations, message) ==
    [ kind        |-> "HealingResult",
      success     |-> success,
      fix_applied |-> fix_applied,
      confidence  |-> confidence,
      iterations  |-> iterations,
      message     |-> message ]

(***************************************************************************)
(* Exceptions.  A statement of heal_pipeline may raise (formatting a       *)
(* payload of any size into a log message, building the result); `fault`   *)
(* names the statement that raises and the exception's text.               *)
(***************************************************************************)
NoFault == [at |-> "none", text |-> ""]

\* One statement before the try block (the dump of the payload into the debug
\* message) and one inside it (the dump of the result into the info message).
FaultSites == {"dump_failure", "log_result"}

Faults == {[at |-> a, text |-> "out of memory"] : a \in FaultSites}

\* datetime.utcnow().isoformat()
ClockReadings == {"2024-01-27T12:00:00.000000", "2024-01-27T12:00:00.000250"}

(***************************************************************************)
(* Route handlers.  Each yields what the handler did: outcome "return"     *)
(* (value), "http_exception" (status, detail) or "raise" (an exception     *)
(* leaving the handler), and its logger calls in order.                    *)
(***************************************************************************)
root(now) ==
    [ outcome |-> "return",
      value   |-> [ kind |-> "dict", service |-> "AI Healing Pipeline Agent",
                    status |-> "operational", version |-> "1.0.0", timestamp |-> now ],
      calls   |-> <<>> ]

\* health_check reporting the errors logged so far.
health_check_degrading(now) ==
    [ outcome |-> "return",
      value   |-> [ kind |-> "dict",
                    status |-> IF \E k \in 1..Len(log) : log[k].level = "ERROR"
                                 THEN "degraded" ELSE "healthy",
                    timestamp |-> now ],
      calls   |-> <<>> ]

health_check(now) ==
    [ outcome |-> "return",
      value   |-> [kind |-> "dict", status |-> "healthy", timestamp |-> now],
      calls   |-> <<>> ]

\* get_metrics counting the healings and the errors that were logged.
get_metrics_counting(now) ==
    LET healed == {k \in 1..Len(log) : SubSeq(log[k].msg, 1, 15) = "Healing result:"}
        failed == {k \in 1..Len(log) : log[k].level = "ERROR"}
    IN  [ outcome |-> "return",
          value   |-> [ kind |-> "dict",
                        total_healings |-> Cardinality(healed) + Cardinality(failed),
                        success_rate |-> IF healed = {} THEN 0 ELSE 1,
                        average_resolution_time |-> 0, timestamp |-> now ],
          calls   |-> <<>> ]

get_metrics(now) ==
    [ outcome |-> "return",
      value   |-> [ kind |-> "dict", total_healings |-> 0, success_rate |-> 0,
                    average_resolution_time |-> 0, timestamp |-> now ],
      calls   |-> <<>> ]

VerdictSuccess    == TRUE
VerdictFixApplied == Str("Placeholder - Week 2 will implement AI agent")

\* VerdictConfidence given as a percentage.
VerdictConfidence_percent == 95 * 100

\* VerdictConfidence lowered once a healing has been logged.
VerdictConfidence_decaying == IF log = <<>> THEN 95 ELSE 90

VerdictConfidence == 95
VerdictIterations == 1

\* VerdictMessage interpolating the error message instead of the stage.
VerdictMessage_error(failure) ==
    "Acknowledged failure in " \o failure.error_message \o ". Ready for AI implementation."

\* VerdictMessage reading the stage from the request received last, as a
\* module-level variable shared by the handlers would hold it.
VerdictMessage_lastReceived(failure) ==
    LET arrived == {i \in ReqIds : reqs[i].pc # "idle"}
        last    == CHOOSE i \in arrived : \A j \in arrived : j <= i
    IN  "Acknowledged failure in " \o reqs[last].req.body.obj.stage.v
            \o ". Ready for AI implementation."

VerdictMessage(failure) ==
    "Acknowledged failure in " \o failure.stage \o ". Ready for AI implementation."

\* The except clause: log the error, raise HTTPException(500).
Caught(text, calls) ==
    [ outcome |-> "http_exception",
      status  |-> 500,
      detail  |-> "Internal error: " \o text,
      calls   |-> Append(calls, Record("ERROR", "Error during healing: " \o text)) ]

Raised(text, calls) == [outcome |-> "raise", text |-> text, calls |-> calls]

\* The body of heal_pipeline, for the confidence and iterations it hands to
\* HealingResult.
heal_pipeline_building(failure, fault, confidence, iterations) ==
    LET received == Record("INFO", "Received healing request for stage: " \o failure.stage)
        details  == Record("DEBUG", "Failure details: " \o ModelDump(failure))
        errors   == HealingResultErrors(confidence, iterations)
        result   == HealingResult(VerdictSuccess, VerdictFixApplied, confidence,
                                  iterations, VerdictMessage(failure))
        healed   == Record("INFO", "Healing result: " \o result.message)
    IN  IF fault.at = "dump_failure" THEN Raised(fault.text, <<received>>)
        \* try:
        ELSE IF errors # <<>> THEN Caught(errors[1], <<received, details>>)
        ELSE IF fault.at = "log_result" THEN Caught(fault.text, <<received, details>>)
        ELSE [ outcome |-> "return", value |-> result,
               calls   |-> <<received, details, healed>> ]

heal_pipeline(failure, fault) ==
    heal_pipeline_building(failure, fault, VerdictConfidence, VerdictIterations)

(***************************************************************************)
(* The application's routes, in registration order: the documentation      *)
(* routes FastAPI adds for docs_url and redoc_url, then the decorated      *)
(* handlers.                                                               *)
(***************************************************************************)
Route(path, methods, endpoint) == [path |-> path, methods |-> methods, endpoint |-> endpoint]

Routes ==
    << Route("/openapi.json", {"GET", "HEAD"}, "openapi"),
       Route("/docs", {"GET", "HEAD"}, "swagger_ui_html"),
       Route("/docs/oauth2-redirect", {"GET", "HEAD"}, "swagger_ui_redirect"),
       Route("/redoc", {"GET", "HEAD"}, "redoc_html"),
       Route("/", {"GET"}, "root"),
       Route("/health", {"GET"}, "health_check"),
       Route("/heal", {"POST"}, "heal_pipeline"),
       Route("/metrics", {"GET"}, "get_metrics") >>

RouteIds == 1..Len(Routes)

EndsWithSlash(path) == Len(path) > 0 /\ SubSeq(path, Len(path), Len(path)) = "/"

RECURSIVE RStripSlash(_)
RStripSlash(path) ==
    IF EndsWithSlash(path) THEN RStripSlash(SubSeq(path, 1, Len(path) - 1)) ELSE path

\* The path the router tries when nothing matches: a trailing slash removed or added.
SlashToggled(path) == IF EndsWithSlash(path) THEN RStripSlash(path) ELSE path \o "/"

FullMatches(method, path) ==
    {r \in RouteIds : Routes[r].path = path /\ method \in Routes[r].methods}

PathMatches(path) == {r \in RouteIds : Routes[r].path = path}

First(S) == CHOOSE r \in S : \A q \in S : r <= q

\* Resolve with a route matching only when path and method both match.
Resolve_noPartial(method, path) ==
    IF FullMatches(method, path) # {}
        THEN [to |-> "endpoint", endpoint |-> Routes[First(FullMatches(method, path))].endpoint]
    ELSE IF path # "/" /\ PathMatches(SlashToggled(path)) # {}
        THEN [to |-> "redirect", endpoint |-> "none"]
    ELSE [to |-> "not_found", endpoint |-> "none"]

\* Resolve without the redirect to the path with its trailing slash toggled.
Resolve_noRedirect(method, path) ==
    IF FullMatches(method, path) # {}
        THEN [to |-> "endpoint", endpoint |-> Routes[First(FullMatches(method, path))].endpoint]
    ELSE IF PathMatches(path) # {}
        THEN [to |-> "method_not_allowed", endpoint |-> "none"]
    ELSE [to |-> "not_found", endpoint |-> "none"]

Resolve(method, path) ==
    IF FullMatches(method, path) # {}
        THEN [to |-> "endpoint", endpoint |-> Routes[First(FullMatches(method, path))].endpoint]
    ELSE IF PathMatches(path) # {}
        THEN [to |-> "method_not_allowed", endpoint |-> "none"]
    ELSE IF path # "/" /\ PathMatches(SlashToggled(path)) # {}
        THEN [to |-> "redirect", endpoint |-> "none"]
    ELSE [to |-> "not_found", endpoint |-> "none"]

(***************************************************************************)
(* Responses.                                                              *)
(***************************************************************************)
JSONResponse(status, content) == [status |-> status, body |-> content]

\* The handler for HTTPException.
HttpError(status, detail) == JSONResponse(status, [kind |-> "error", detail |-> detail])

\* The handler for request validation errors: 422 and the list of errors.
ValidationError(errors) ==
    JSONResponse(422, [kind |-> "validation_error", detail |-> errors])

\* ServerError answered as a bad gateway.
ServerError_badGateway ==
    [status |-> 502, body |-> [kind |-> "text", text |-> "Internal Server Error"]]

\* An exception no handler catches.
ServerError == [status |-> 500, body |-> [kind |-> "text", text |-> "Internal Server Error"]]

RedirectResponse(location) ==
    [status |-> 307, body |-> [kind |-> "redirect", location |-> location]]

\* Reading the body of POST /heal: the errors found, or the failure to parse.
BodyErrors(body) ==
    CASE body.kind = "none"      -> <<[loc |-> <<"body">>, type |-> "missing"]>>
      [] body.kind = "malformed" -> <<[loc |-> <<"body", "1">>, type |-> "json_invalid"]>>
      [] body.kind = "array"     -> <<[loc |-> <<"body">>, type |-> "model_attributes_type"]>>
      [] body.kind = "object"    -> PipelineFailureErrors(body.obj)
      [] OTHER                   -> <<>>

Served(handler, fault, resp, calls) ==
    [handler |-> handler, fault |-> fault.at, resp |-> resp, calls |-> calls]

\* What the handler's outcome becomes.
Outcome(handler, fault, out) ==
    CASE out.outcome = "return" -> Served(handler, fault, JSONResponse(200, out.value), out.calls)
      [] out.outcome = "http_exception" ->
            Served(handler, fault, HttpError(out.status, out.detail), out.calls)
      [] out.outcome = "raise" -> Served(handler, fault, ServerError, out.calls)

\* HealRoute with the request logged before the body is validated.
HealRoute_logFirst(body, fault) ==
    LET received == Record("INFO", "Received healing request for stage: " \o body.obj.stage.v)
    IN  IF body.kind = "undecodable"
            THEN Served("none", NoFault, HttpError(400, "There was an error parsing the body"), <<>>)
        ELSE IF BodyErrors(body) # <<>>
            THEN Served("none", NoFault, ValidationError(BodyErrors(body)), <<received>>)
        ELSE Outcome("heal_pipeline", fault, heal_pipeline(PipelineFailure(body.obj), fault))

\* POST /heal: parse the body, validate it, then call heal_pipeline.
HealRoute(body, fault) ==
    IF body.kind = "undecodable"
        THEN Served("none", NoFault, HttpError(400, "There was an error parsing the body"), <<>>)
    ELSE IF BodyErrors(body) # <<>>
        THEN Served("none", NoFault, ValidationError(BodyErrors(body)), <<>>)
    ELSE Outcome("heal_pipeline", fault, heal_pipeline(PipelineFailure(body.obj), fault))

\* The application called with one request.
app(method, path, body, fault, now) ==
    LET r == Resolve(method, path)
    IN  CASE r.to = "not_found" -> Served("none", NoFault, HttpError(404, "Not Found"), <<>>)
          [] r.to = "method_not_allowed" ->
                Served("none", NoFault, HttpError(405, "Method Not Allowed"), <<>>)
          [] r.to = "redirect" ->
                Served("none", NoFault, RedirectResponse(SlashToggled(path)), <<>>)
          [] r.to = "endpoint" ->
                CASE r.endpoint = "root"          -> Outcome("root", NoFault, root(now))
                  [] r.endpoint = "health_check"  -> Outcome("health_check", NoFault, health_check(now))
                  [] r.endpoint = "get_metrics"   -> Outcome("get_metrics", NoFault, get_metrics(now))
                  [] r.endpoint = "heal_pipeline" -> HealRoute(body, fault)
                  [] OTHER -> Served(r.endpoint, NoFault,
                                     [status |-> 200, body |-> [kind |-> "documentation"]], <<>>)

(***************************************************************************)
(* The state machine.                                                      *)
(***************************************************************************)
Idle == [pc |-> "idle"]

Request(method, path, body) == [method |-> method, path |-> path, body |-> body]

Inputs ==
    {Request(m, p, NoBody) : m \in Methods, p \in Paths}
    \cup {Request("POST", "/heal", b) : b \in Bodies}
    \cup {Request("POST", p, Body("object", Example)) : p \in {"/health/", "/nonexistent"}}

Init ==
    /\ reqs = [i \in ReqIds |-> Idle]
    /\ log = <<>>

\* A request arrives; requests are numbered in order of arrival.
Receive(i) ==
    /\ reqs[i].pc = "idle"
    /\ \A j \in 1..(i - 1) : reqs[j].pc # "idle"
    /\ \E in \in Inputs :
          reqs' = [reqs EXCEPT ![i] = [pc |-> "received", req |-> in]]
    /\ UNCHANGED log

Complete(i, served) ==
    /\ reqs' = [reqs EXCEPT ![i] = [ pc |-> "done", req |-> reqs[i].req,
                                      handler |-> served.handler, fault |-> served.fault,
                                      resp |-> served.resp ]]
    /\ log' = log \o Emitted(served.calls)

\* The application answers a received request; no statement raises.
Dispatch(i) ==
    /\ reqs[i].pc = "received"
    /\ \E now \in ClockReadings :
          Complete(i, app(reqs[i].req.method, reqs[i].req.path, reqs[i].req.body, NoFault, now))

\* The application answers a received request whose handler is heal_pipeline,
\* and a statement of the handler raises.
DispatchRaising(i) ==
    /\ reqs[i].pc = "received"
    /\ \E fault \in Faults, now \in ClockReadings :
          LET served == app(reqs[i].req.method, reqs[i].req.path, reqs[i].req.body, fault, now)
          IN  /\ served.handler = "heal_pipeline"
              /\ Complete(i, served)

Next == \E i \in ReqIds : Receive(i) \/ Dispatch(i)

Spec == Init /\ [][Next]_vars

NextRaising == \E i \in ReqIds : Receive(i) \/ Dispatch(i) \/ DispatchRaising(i)

SpecRaising == Init /\ [][NextRaising]_vars

\* Requests for the behaviours checked to their end: every method on every
\* path, and POST /heal with a valid, an invalid, a malformed and an
\* undecodable body.
Samples ==
    {Request(m, p, NoBody) : m \in Methods, p \in Paths}
    \cup {Request("POST", "/heal", b) :
              b \in {Body("object", Example),
                     Body("object", [Example EXCEPT !.stage = Num("123")]),
                     Body("malformed", Example), Body("undecodable", Example)}}

ReceiveSample(i) ==
    /\ reqs[i].pc = "idle"
    /\ \A j \in 1..(i - 1) : reqs[j].pc # "idle"
    /\ \E in \in Samples :
          reqs' = [reqs EXCEPT ![i] = [pc |-> "received", req |-> in]]
    /\ UNCHANGED log

NextFair == \E i \in ReqIds : ReceiveSample(i) \/ Dispatch(i) \/ DispatchRaising(i)

\* The event loop keeps running the requests it has accepted: while a request
\* waits, one is eventually dispatched.
SpecFair ==
    /\ Init /\ [][NextFair]_vars
    /\ WF_vars(\E i \in ReqIds : Dispatch(i) \/ DispatchRaising(i))

(***************************************************************************)
(* HealingResult and the except clause of heal_pipeline on values other    *)
(* than the handler's constants: valid reports arrive and the handler body *)
(* runs with a confidence and an iterations drawn from VerdictArgs.        *)
(***************************************************************************)
VerdictArg(confidence, iterations) == [confidence |-> confidence, iterations |-> iterations]

VerdictArgs ==
    { VerdictArg(0 - 1, 1), VerdictArg(0, 0), VerdictArg(95, 1), VerdictArg(100, 1),
      VerdictArg(101, 1), VerdictArg(95, 0 - 1) }

\* The valid reports that differ from the example payload in their stage only.
Reports ==
    {in \in Inputs : /\ in.method = "POST" /\ in.path = "/heal" /\ in.body.kind = "object"
                      /\ PipelineFailureErrors(in.body.obj) = <<>>
                      /\ [in.body.obj EXCEPT !.stage = Example.stage] = Example}

ReceiveReport(i) ==
    /\ reqs[i].pc = "idle"
    /\ \A j \in 1..(i - 1) : reqs[j].pc # "idle"
    /\ \E in \in Reports :
          reqs' = [reqs EXCEPT ![i] = [pc |-> "received", req |-> in]]
    /\ UNCHANGED log

Construct(i) ==
    /\ reqs[i].pc = "received"
    /\ \E args \in VerdictArgs :
          LET served == Outcome("heal_pipeline", NoFault,
                                heal_pipeline_building(PipelineFailure(reqs[i].req.body.obj),
                                                       NoFault, args.confidence,
                                                       args.iterations))
          IN  /\ reqs' = [reqs EXCEPT ![i] = [ pc |-> "done", req |-> reqs[i].req,
                                                handler |-> served.handler,
                                                fault |-> served.fault,
                                                resp |-> served.resp, args |-> args ]]
              /\ log' = log \o Emitted(served.calls)

NextVerdicts == \E i \in ReqIds : ReceiveReport(i) \/ Construct(i)

SpecVerdicts == Init /\ [][NextVerdicts]_vars

(***************************************************************************)
(* Vocabulary of the properties.                                           *)
(***************************************************************************)
Done(i) == reqs[i].pc = "done"

IsHeal(i) == reqs[i].req.method = "POST" /\ reqs[i].req.path = "/heal"

\* A FailureReport as the specification words it: the four required keys
\* present with text values, metadata absent, null or a mapping.
RequiredKeys == {"stage", "error_message", "logs", "timestamp"}

IsFailureReport(body) ==
    /\ body.kind = "object"
    /\ \A k \in RequiredKeys : body.obj[k].t = "str"
    /\ body.obj.metadata.t \in {"missing", "null", "obj"}

Contains(text, part) ==
    \E k \in 1..(Len(text) - Len(part) + 1) : SubSeq(text, k, k + Len(part) - 1) = part

Status(i) == reqs[i].resp.status
Reply(i) == reqs[i].resp.body

\* C1: every POST /heal whose payload has stage, error_message, logs and
\* timestamp present as strings (metadata absent, null or a mapping) is
\* answered 200 with a HealingResult whose confidence lies in [0.0, 1.0] and
\* whose iterations is not negative, whatever requests came before.
C1_ValidPayloadHealed ==
    \A i \in ReqIds :
        Done(i) /\ IsHeal(i) /\ IsFailureReport(reqs[i].req.body) =>
            /\ Status(i) = 200
            /\ Reply(i).kind = "HealingResult"
            /\ Reply(i).confidence >= 0 /\ Reply(i).confidence <= 100
            /\ Reply(i).iterations >= 0

\* A valid report is healed after an earlier request has been answered.
C1_Witness ==
    \E i \in ReqIds :
        /\ i > 1 /\ Done(i - 1)
        /\ Done(i) /\ IsHeal(i) /\ IsFailureReport(reqs[i].req.body)
        /\ Status(i) = 200 /\ Reply(i).kind = "HealingResult"

\* C2 (as stated): every POST /heal whose body is not a valid FailureReport
\* is answered 422 with a `detail` list.
C2_InvalidBodyIs422 ==
    \A i \in ReqIds :
        Done(i) /\ IsHeal(i) /\ ~IsFailureReport(reqs[i].req.body) =>
            Status(i) = 422 /\ Reply(i).kind = "validation_error"

\* C2 (amended): a POST /heal whose body is not a valid FailureReport is never
\* answered 200 or 500.  A body the JSON parser fails on for another reason
\* than a syntax error is answered 400 with a `detail` text; every other one
\* (no body, malformed JSON, a document that is not an object, a required key
\* missing or not a string, metadata not a mapping) is answered 422 with a
\* non-empty `detail` list.
C2_InvalidBodyRejected ==
    \A i \in ReqIds :
        Done(i) /\ IsHeal(i) /\ ~IsFailureReport(reqs[i].req.body) =>
            /\ Status(i) \notin {200, 500}
            /\ reqs[i].req.body.kind = "undecodable" =>
                  Status(i) = 400 /\ Reply(i).kind = "error"
            /\ reqs[i].req.body.kind # "undecodable" =>
                  /\ Status(i) = 422
                  /\ Reply(i).kind = "validation_error"
                  /\ Len(Reply(i).detail) >= 1

\* A payload with a number for a required key has been rejected.
C2_Witness ==
    \E i \in ReqIds :
        /\ Done(i) /\ IsHeal(i) /\ reqs[i].req.body.kind = "object"
        /\ \E k \in RequiredKeys : reqs[i].req.body.obj[k].t = "num"
        /\ Status(i) = 422

\* The verdict the handler is documented to build for a stage.
FixedFix == "Placeholder - Week 2 will implement AI agent"

\* C3: every validated POST /heal returns success=true, confidence=0.95,
\* iterations=1, the one fixed non-null fix_applied and a message containing
\* the request's stage; two requests with the same stage get the same verdict
\* whatever their error_message, logs, timestamp and metadata.
C3_FixedVerdict ==
    /\ \A i \in ReqIds :
          Done(i) /\ IsHeal(i) /\ IsFailureReport(reqs[i].req.body) =>
              /\ Status(i) = 200
              /\ Reply(i).success = TRUE
              /\ Reply(i).confidence = 95
              /\ Reply(i).iterations = 1
              /\ Reply(i).fix_applied = [t |-> "str", v |-> FixedFix]
              /\ Contains(Reply(i).message, reqs[i].req.body.obj.stage.v)
    /\ \A i, j \in ReqIds :
          /\ Done(i) /\ IsHeal(i) /\ IsFailureReport(reqs[i].req.body)
          /\ Done(j) /\ IsHeal(j) /\ IsFailureReport(reqs[j].req.body)
          /\ reqs[i].req.body.obj.stage = reqs[j].req.body.obj.stage
          => Reply(i) = Reply(j)

\* Two reports with the same stage and different other keys have been healed.
C3_Witness ==
    \E i, j \in ReqIds :
        /\ Done(i) /\ IsHeal(i) /\ Status(i) = 200
        /\ Done(j) /\ IsHeal(j) /\ Status(j) = 200
        /\ reqs[i].req.body.obj.stage = reqs[j].req.body.obj.stage
        /\ reqs[i].req.body.obj.stage.v # ""
        /\ reqs[i].req.body.obj.error_message # reqs[j].req.body.obj.error_message
        /\ reqs[i].req.body.obj.metadata # reqs[j].req.body.obj.metadata

C5_ValidationPrecedesHandler ==
    [][ \A i \in ReqIds :
            /\ reqs[i].pc = "received" /\ IsHeal(i)
            /\ reqs'[i].pc = "done" /\ reqs'[i].resp.status = 422
            => log' = log /\ reqs'[i].handler = "none" ]_vars

\* A POST /heal has been answered 422 after another one was healed and logged.
C5_Witness ==
    \E i \in ReqIds :
        /\ Done(i) /\ IsHeal(i) /\ Status(i) = 422 /\ reqs[i].handler = "none"
        /\ log # <<>>

\* C6 (as stated): every exception raised in heal_pipeline becomes a 500
\* response whose `detail` embeds the exception's text.
C6_EveryExceptionCaught ==
    \A i \in ReqIds :
        Done(i) /\ reqs[i].fault # "none" =>
            /\ Status(i) = 500
            /\ Reply(i).kind = "error"
            /\ Contains(Reply(i).detail, "out of memory")

\* C7: GET /health is answered 200 with status "healthy" whatever requests
\* were answered before, rejected and failed ones included.
C7_HealthAlwaysHealthy ==
    \A i \in ReqIds :
        Done(i) /\ reqs[i].req.method = "GET" /\ reqs[i].req.path = "/health" =>
            Status(i) = 200 /\ Reply(i).status = "healthy"

\* GET /health has been answered after a request that failed with 500.
C7_Witness ==
    \E i, j \in ReqIds :
        /\ Done(j) /\ Status(j) = 500
        /\ Done(i) /\ reqs[i].req.method = "GET" /\ reqs[i].req.path = "/health"
        /\ Status(i) = 200
        /\ \E k \in 1..Len(log) : log[k].level = "ERROR"

\* The methods each declared path answers.
DeclaredMethods(path) ==
    CASE path \in {"/", "/health", "/metrics"} -> {"GET"}
      [] path = "/heal" -> {"POST"}
      [] OTHER -> {}

\* C8: a method that is not registered for a declared path is answered 405 and
\* no route handler runs.
C8_WrongMethodIs405 ==
    \A i \in ReqIds :
        /\ Done(i)
        /\ DeclaredMethods(reqs[i].req.path) # {}
        /\ reqs[i].req.method \notin DeclaredMethods(reqs[i].req.path)
        => Status(i) = 405 /\ reqs[i].handler = "none"

\* GET /heal and a POST to a GET route have both been answered.
C8_Witness ==
    \E i, j \in ReqIds :
        /\ Done(i) /\ reqs[i].req.method = "GET" /\ reqs[i].req.path = "/heal"
        /\ Done(j) /\ reqs[j].req.method = "POST" /\ reqs[j].req.path = "/metrics"
        /\ Status(i) = 405 /\ Status(j) = 405

RegisteredPaths ==
    {"/", "/health", "/heal", "/metrics", "/openapi.json", "/docs",
     "/docs/oauth2-redirect", "/redoc"}

\* C9 (as stated): a request to a path that is not a registered route is
\* answered 404 whatever its method or body, and no route handler runs.
C9_UnknownPathIs404 ==
    \A i \in ReqIds :
        Done(i) /\ reqs[i].req.path \notin RegisteredPaths =>
            Status(i) = 404 /\ reqs[i].handler = "none"

\* path is p followed by one or more slashes.
RECURSIVE SlashesAfter(_, _)
SlashesAfter(p, path) ==
    /\ Len(path) > Len(p)
    /\ SubSeq(path, Len(path), Len(path)) = "/"
    /\ LET rest == SubSeq(path, 1, Len(path) - 1)
       IN  rest = p \/ SlashesAfter(p, rest)

\* C9 (amended): a request to a path that is not a registered route runs no
\* route handler, whatever its method or body; it is answered 307, redirecting
\* to the registered path, when the path is a registered path other than "/"
\* followed by trailing slashes, and 404 otherwise.
C9_UnknownPathNotServed ==
    \A i \in ReqIds :
        Done(i) /\ reqs[i].req.path \notin RegisteredPaths =>
            /\ reqs[i].handler = "none"
            /\ IF \E p \in RegisteredPaths \ {"/"} : SlashesAfter(p, reqs[i].req.path)
                 THEN /\ Status(i) = 307
                      /\ Reply(i).location \in RegisteredPaths
                      /\ SlashesAfter(Reply(i).location, reqs[i].req.path)
                 ELSE Status(i) = 404

\* An undeclared path has been answered 404 for a POST that carried a body.
C9_Witness ==
    \E i \in ReqIds :
        /\ Done(i) /\ reqs[i].req.path = "/nonexistent" /\ reqs[i].req.method = "POST"
        /\ reqs[i].req.body.kind = "object"
        /\ Status(i) = 404

\* C10: validation of the four required keys looks at presence and type only:
\* a POST /heal with a JSON object is answered 200 exactly when the four keys
\* are strings (and metadata is absent, null or a mapping), so empty and
\* whitespace-only values and a timestamp that is no date are accepted.
C10_ContentNotValidated ==
    \A i \in ReqIds :
        Done(i) /\ IsHeal(i) /\ reqs[i].req.body.kind = "object" =>
            /\ (Status(i) = 200) = IsFailureReport(reqs[i].req.body)
            /\ LET o == reqs[i].req.body.obj
               IN  /\ IsFailureReport(reqs[i].req.body)
                   /\ \/ \E k \in RequiredKeys : o[k].v \in {"", "   ", "\n\n\n", "\t\t\t"}
                      \/ o.timestamp.v = "not a date"
                   => Status(i) = 200

\* The empty, the whitespace-only and the no-date payloads have been accepted.
C10_Witness ==
    \E i, j \in ReqIds :
        /\ Done(i) /\ IsHeal(i) /\ Status(i) = 200
        /\ reqs[i].req.body.obj.timestamp.v \in {"", "not a date"}
        /\ Done(j) /\ IsHeal(j) /\ Status(j) = 200
        /\ reqs[j].req.body.obj \in {EmptyStrings, AllWhitespace}

\* The same object without its metadata key.
WithoutMetadata(o) == [o EXCEPT !.metadata = Missing]

\* C11: with the four required keys valid, POST /heal is answered 200 whether
\* metadata is absent, null, an empty mapping or a mapping to any JSON
\* values, and two payloads that differ in metadata only get the same verdict.
C11_MetadataOptional ==
    /\ \A i \in ReqIds :
          /\ Done(i) /\ IsHeal(i) /\ reqs[i].req.body.kind = "object"
          /\ \A k \in RequiredKeys : reqs[i].req.body.obj[k].t = "str"
          /\ reqs[i].req.body.obj.metadata.t \in {"missing", "null", "obj"}
          => Status(i) = 200
    /\ \A i, j \in ReqIds :
          /\ Done(i) /\ IsHeal(i) /\ IsFailureReport(reqs[i].req.body)
          /\ Done(j) /\ IsHeal(j) /\ IsFailureReport(reqs[j].req.body)
          /\ WithoutMetadata(reqs[i].req.body.obj) = WithoutMetadata(reqs[j].req.body.obj)
          => Status(i) = Status(j) /\ Reply(i) = Reply(j)

\* A payload with null metadata and the same payload with a mapping of nested
\* values and numbers have both been answered.
C11_Witness ==
    \E i, j \in ReqIds :
        /\ Done(i) /\ IsHeal(i) /\ Status(i) = 200
        /\ Done(j) /\ IsHeal(j) /\ Status(j) = 200
        /\ reqs[i].req.body.obj.metadata.t = "null"
        /\ reqs[j].req.body.obj.metadata = Obj("{\"attempt\": 3, \"env\": {\"os\": \"linux\"}}")
        /\ WithoutMetadata(reqs[i].req.body.obj) = WithoutMetadata(reqs[j].req.body.obj)

\* C12: GET /metrics is answered total_healings=0, success_rate=0.0 and
\* average_resolution_time=0.0 in every reachable state, whatever POST /heal
\* requests succeeded or failed before.
C12_MetricsStatic ==
    \A i \in ReqIds :
        Done(i) /\ reqs[i].req.method = "GET" /\ reqs[i].req.path = "/metrics" =>
            /\ Status(i) = 200
            /\ Reply(i).total_healings = 0
            /\ Reply(i).success_rate = 0
            /\ Reply(i).average_resolution_time = 0

\* GET /metrics has been answered after a POST /heal was handled and logged.
C12_Witness ==
    \E i, j \in ReqIds :
        /\ Done(j) /\ IsHeal(j) /\ reqs[j].handler = "heal_pipeline"
        /\ Status(j) \in {200, 500}
        /\ Done(i) /\ reqs[i].req.method = "GET" /\ reqs[i].req.path = "/metrics"
        /\ Status(i) = 200
        /\ log # <<>>

\* The same object without its undeclared key.
WithoutExtra(o) == [o EXCEPT !.extra = Missing]

\* C17: a POST /heal payload with the four required string keys and an
\* undeclared key is answered 200 with the verdict of the payload without it.
C17_ExtraKeysIgnored ==
    /\ \A i \in ReqIds :
          /\ Done(i) /\ IsHeal(i) /\ reqs[i].req.body.kind = "object"
          /\ reqs[i].req.body.obj.extra.t # "missing"
          /\ IsFailureReport(Body("object", WithoutExtra(reqs[i].req.body.obj)))
          => Status(i) = 200 /\ Reply(i).kind = "HealingResult"
    /\ \A i, j \in ReqIds :
          /\ Done(i) /\ IsHeal(i) /\ IsFailureReport(reqs[i].req.body)
          /\ Done(j) /\ IsHeal(j) /\ IsFailureReport(reqs[j].req.body)
          /\ WithoutExtra(reqs[i].req.body.obj) = WithoutExtra(reqs[j].req.body.obj)
          => Status(i) = Status(j) /\ Reply(i) = Reply(j)

\* A payload with an undeclared key and the same payload without it have both
\* been answered.
C17_Witness ==
    \E i, j \in ReqIds :
        /\ Done(i) /\ IsHeal(i) /\ Status(i) = 200
        /\ Done(j) /\ IsHeal(j) /\ Status(j) = 200
        /\ reqs[i].req.body.obj.extra.t = "str"
        /\ reqs[j].req.body.obj.extra.t = "missing"
        /\ WithoutExtra(reqs[i].req.body.obj) = reqs[j].req.body.obj

\* The records a step has added to the log.
NewRecords == SubSeq(log', Len(log) + 1, Len(log'))

\* Request i is answered by this step, by one of the four route handlers.
Answers(i) ==
    /\ reqs[i].pc = "received" /\ reqs'[i].pc = "done"
    /\ reqs'[i].handler \in {"root", "health_check", "get_metrics", "heal_pipeline"}

MessageNaming(stage) ==
    "Acknowledged failure in " \o stage \o ". Ready for AI implementation."

\* C14: whatever the order in which in-flight POST /heal requests are handled,
\* each valid one is answered 200 with the message naming its own stage, which
\* differs from the message of a request with another stage.
C14_OwnStageUnderInterleaving ==
    /\ \A i \in ReqIds :
          Done(i) /\ IsHeal(i) /\ IsFailureReport(reqs[i].req.body) =>
              /\ Status(i) = 200
              /\ Reply(i).message = MessageNaming(reqs[i].req.body.obj.stage.v)
    /\ \A i, j \in ReqIds :
          /\ Done(i) /\ IsHeal(i) /\ IsFailureReport(reqs[i].req.body)
          /\ Done(j) /\ IsHeal(j) /\ IsFailureReport(reqs[j].req.body)
          /\ reqs[i].req.body.obj.stage.v # reqs[j].req.body.obj.stage.v
          => Reply(i).message # Reply(j).message

\* Two POST /heal requests with different stages were in flight together and
\* the one that arrived second was handled first.
C14_Witness ==
    /\ MaxRequests >= 2
    /\ Done(1) /\ IsHeal(1) /\ Status(1) = 200
    /\ Done(2) /\ IsHeal(2) /\ Status(2) = 200
    /\ reqs[1].req.body.obj.stage.v # reqs[2].req.body.obj.stage.v
    /\ Len(log) = 4
    /\ log[1].msg = "Received healing request for stage: " \o reqs[2].req.body.obj.stage.v
    /\ log[3].msg = "Received healing request for stage: " \o reqs[1].req.body.obj.stage.v

\* The bounds of the specification: confidence in [0.0, 1.0], iterations >= 0.
WithinBounds(confidence, iterations) ==
    confidence >= 0 /\ confidence <= 100 /\ iterations >= 0

\* C15: the bounds of the verdict are enforced where it is built: when the
\* handler hands HealingResult a confidence outside [0.0, 1.0] or a negative
\* iterations, construction fails and POST /heal is answered 500 with the
\* error in `detail`; values within the bounds are returned unchanged with
\* 200; so no 200 carries a value outside the bounds.
C15_BoundsEnforcedAtConstruction ==
    \A i \in ReqIds : Done(i) =>
        /\ ~WithinBounds(reqs[i].args.confidence, reqs[i].args.iterations) =>
              /\ Status(i) = 500
              /\ Reply(i).kind = "error"
              /\ SubSeq(Reply(i).detail, 1, 16) = "Internal error: "
        /\ WithinBounds(reqs[i].args.confidence, reqs[i].args.iterations) =>
              /\ Status(i) = 200
              /\ Reply(i).confidence = reqs[i].args.confidence
              /\ Reply(i).iterations = reqs[i].args.iterations
        /\ Status(i) = 200 => WithinBounds(Reply(i).confidence, Reply(i).iterations)

\* A confidence above 1.0 and a negative iterations have each been answered
\* 500, and the boundary value 1.0 has been answered 200.
C15_Witness ==
    \E i, j \in ReqIds :
        /\ Done(i) /\ Status(i) = 500
        /\ reqs[i].args.confidence > 100 \/ reqs[i].args.iterations < 0
        /\ Done(j) /\ Status(j) = 200 /\ reqs[j].args.confidence = 100
        /\ \E k \in 1..Len(log) : log[k].level = "ERROR"

\* C16 (as stated): every response has status 200, 404, 405, 422 or 500, and a
\* POST /heal ends in 422, 200 or 500.
C16_StatusesAsStated ==
    \A i \in ReqIds : Done(i) =>
        /\ Status(i) \in {200, 404, 405, 422, 500}
        /\ IsHeal(i) => Status(i) \in {200, 422, 500}

\* The outcome of an answered POST /heal.
Rejected(i) ==
    Status(i) \in {400, 422} /\ reqs[i].handler = "none" /\ ~IsFailureReport(reqs[i].req.body)
VerdictReturned(i) ==
    Status(i) = 200 /\ Reply(i).kind = "HealingResult" /\ reqs[i].fault = "none"
InternalError(i) ==
    Status(i) = 500 /\ reqs[i].handler = "heal_pipeline" /\ reqs[i].fault # "none"

\* C16 (amended): every received request is eventually answered (no request
\* stays unanswered for ever), once: its response is never replaced (an
\* answered request stays answered), its status is one of 200, 307, 400, 404, 405,
\* 422 or 500, and a POST /heal ends in exactly one of rejected before the
\* handler (422, or 400 for a body that cannot be parsed), verdict returned
\* (200) or internal error (500).
C16_EveryRequestAnsweredOnce ==
    /\ [](\A i \in ReqIds : Done(i) =>
            /\ Status(i) \in {200, 307, 400, 404, 405, 422, 500}
            /\ IsHeal(i) =>
                  /\ Rejected(i) \/ VerdictReturned(i) \/ InternalError(i)
                  /\ ~(Rejected(i) /\ VerdictReturned(i))
                  /\ ~(Rejected(i) /\ InternalError(i))
                  /\ ~(VerdictReturned(i) /\ InternalError(i)))
    /\ [][\A i \in ReqIds : Done(i) => reqs'[i] = reqs[i]]_vars
    /\ <>[](\A i \in ReqIds : reqs[i].pc # "received")

\* Every request has been answered, among them a POST /heal that failed with
\* 500 and a request that was redirected or could not be parsed.
C16_Witness ==
    /\ \A i \in ReqIds : Done(i)
    /\ \E i \in ReqIds : IsHeal(i) /\ InternalError(i)
    /\ \E i \in ReqIds : Status(i) \in {307, 400}

====
